---- MODULE Spec2Model ----
(***************************************************************************)
(* Model of Rust-main.py: the GUID acquisition engine (get_guid_auto and   *)
(* the two strategies it composes) and the activation workflow             *)
(* (MainWindow.Hacktivating) that runs it between device connect and the   *)
(* final reboot.  Strings are sequences of one-character strings.          *)
(***************************************************************************)
EXTENDS Integers, Sequences, FiniteSets, TLC

(***************************************************************************)
(* Bounds of the model.                                                    *)
(***************************************************************************)
\* lines of `log show` output considered by extract_guid_from_archive
MaxLines == 2
\* marker occurrences (signatures) found in one tracev3 file
MaxSigs == 2
\* candidates in one list given to analyze_guid_confidence on its own
MaxCands == 3
\* afc rm commands in one list given to rm_file on its own
MaxRemoves == 2

\* pieces a trace given to the candidate extractor is put together from
MaxBlocks == 3

(***************************************************************************)
(* Program constants.                                                      *)
(***************************************************************************)
\* get_guid_auto: self.get_guid_auto_new(max_attempts=3)
AMaxAttempts_Default == 5
AMaxAttempts == 3
\* __init__: self.max_attempts = 5
max_attempts == 5
\* collect_syslog_archive: total_size < 10_000_000
ArchiveFloor == 10000000

(***************************************************************************)
(* Strings.                                                                *)
(***************************************************************************)
GuidExample ==
    <<"2","A","2","2","A","8","2","B","-","C","3","4","2","-","4","4","4","D">> \o
    <<"-","9","7","2","F","-","5","2","7","0","F","B","5","0","8","0","D","F">>

GuidExampleLower ==
    <<"2","a","2","2","a","8","2","b","-","c","3","4","2","-","4","4","4","d">> \o
    <<"-","9","7","2","f","-","5","2","7","0","f","b","5","0","8","0","d","f">>

GuidOther ==
    <<"0","B","5","E","1","C","7","7","-","9","D","3","A","-","4","F","6","0">> \o
    <<"-","B","8","1","2","-","6","E","4","A","9","0","C","3","D","7","F","1">>

GuidBadVersion ==
    <<"2","A","2","2","A","8","2","B","-","C","3","4","2","-","1","4","4","D">> \o
    <<"-","9","7","2","F","-","5","2","7","0","F","B","5","0","8","0","D","F">>

GuidBadVariant ==
    <<"2","A","2","2","A","8","2","B","-","C","3","4","2","-","4","4","4","D">> \o
    <<"-","C","7","2","F","-","5","2","7","0","F","B","5","0","8","0","D","F">>

GuidThird ==
    <<"7","C","9","E","6","6","7","9","-","7","4","2","5","-","4","0","D","E">> \o
    <<"-","9","4","4","B","-","E","0","7","F","C","1","F","9","0","A","E","7">>

\* Python None and "" as a GUID value: both are falsy in `if guid`
NoGuid == <<>>

\* str.upper() on one character (the strings of the model hold hex digits and '-')
UpperChar(c) ==
    CASE c = "a" -> "A" [] c = "b" -> "B" [] c = "c" -> "C"
      [] c = "d" -> "D" [] c = "e" -> "E" [] c = "f" -> "F"
      [] OTHER -> c

\* str.upper()
Upper(s) == [i \in 1..Len(s) |-> UpperChar(s[i])]

\* str.split(sep): the pieces between the separators, empty pieces included
RECURSIVE SplitFrom(_, _, _, _)
SplitFrom(s, sep, i, cur) ==
    IF i > Len(s) THEN <<cur>>
    ELSE IF s[i] = sep THEN <<cur>> \o SplitFrom(s, sep, i + 1, <<>>)
    ELSE SplitFrom(s, sep, i + 1, Append(cur, s[i]))

Split(s, sep) == SplitFrom(s, sep, 1, <<>>)

\* hex_chars = set('0123456789ABCDEF')
hex_chars ==
    {"0","1","2","3","4","5","6","7","8","9","A","B","C","D","E","F"}

\* the validator with the version check (parts[2][0] != '4') left out
validate_guid_structure_NoVersion(guid) ==
    LET parts == Split(guid, "-") IN
    /\ Len(parts) = 5
    /\ Len(parts[1]) = 8 /\ Len(parts[2]) = 4 /\ Len(parts[3]) = 4
    /\ Len(parts[4]) = 4 /\ Len(parts[5]) = 12
    /\ \A i \in 1..Len(guid) : guid[i] = "-" \/ guid[i] \in hex_chars
    /\ parts[4][1] \in {"8", "9", "A", "B"}

\* validate_guid_structure(guid)
validate_guid_structure(guid) ==
    LET parts == Split(guid, "-") IN
    IF Len(parts) # 5 THEN FALSE
    ELSE IF ~(Len(parts[1]) = 8 /\ Len(parts[2]) = 4 /\ Len(parts[3]) = 4
              /\ Len(parts[4]) = 4 /\ Len(parts[5]) = 12) THEN FALSE
    ELSE IF ~(\A i \in 1..Len(guid) : guid[i] = "-" \/ guid[i] \in hex_chars)
         THEN FALSE
    ELSE IF parts[3][1] # "4" THEN FALSE
    ELSE IF parts[4][1] \notin {"8", "9", "A", "B"} THEN FALSE
    ELSE TRUE

(***************************************************************************)
(* Strategy A: the output of `log show` and what is taken from it.         *)
(***************************************************************************)
\* the substrings of a line that GUID_REGEX matches (any case), in order
LogLines ==
    { [marker |-> FALSE, matches |-> <<GuidOther>>],
      [marker |-> TRUE,  matches |-> <<>>],
      [marker |-> TRUE,  matches |-> <<GuidExampleLower>>],
      [marker |-> TRUE,  matches |-> <<GuidBadVersion, GuidExample>>],
      [marker |-> TRUE,  matches |-> <<GuidBadVariant>>] }

LogOutputs == UNION { [1..n -> LogLines] : n \in 0..MaxLines }

\* the search that looks at the first line holding the marker and no other
RECURSIVE FirstMarkerGuid_FirstLineOnly(_, _)
FirstMarkerGuid_FirstLineOnly(lines, i) ==
    IF i > Len(lines) THEN NoGuid
    ELSE IF lines[i].marker
         THEN (IF lines[i].matches # <<>> THEN Upper(lines[i].matches[1]) ELSE NoGuid)
    ELSE FirstMarkerGuid_FirstLineOnly(lines, i + 1)

\* extract_guid_from_archive, the loop over stdout.splitlines(): the first
\* line holding the marker in which GUID_REGEX finds a match gives the GUID
RECURSIVE FirstMarkerGuid(_, _)
FirstMarkerGuid(lines, i) ==
    IF i > Len(lines) THEN NoGuid
    ELSE IF lines[i].marker /\ lines[i].matches # <<>>
         THEN Upper(lines[i].matches[1])
    ELSE FirstMarkerGuid(lines, i + 1)

\* extract_guid_from_archive(archive_path)
extract_guid_from_archive(toolPresent, code, lines) ==
    IF ~toolPresent THEN NoGuid
    ELSE IF code # 0 THEN NoGuid
    ELSE FirstMarkerGuid(lines, 1)

\* the collection without the test on the size
collect_syslog_archive_NoFloor(isdir, total_size) ==
    IF ~isdir THEN FALSE ELSE TRUE

\* collect_syslog_archive(archive_path): the exit code is not looked at
collect_syslog_archive(isdir, total_size) ==
    IF ~isdir THEN FALSE
    ELSE IF total_size < ArchiveFloor THEN FALSE
    ELSE TRUE

ArchiveSizes == {3000000, ArchiveFloor - 1, ArchiveFloor, 25000000}

(***************************************************************************)
(* Strategy B: signatures, candidates and their scores.                    *)
(***************************************************************************)
\* two of the db_patterns of parse_tracev3_structure
Patterns == {"BLDatabaseManager", "BLDatabase"}

PatternRank(p) == IF p = "BLDatabaseManager" THEN 1 ELSE 2

\* what guid_pattern finds in the window of one signature: nothing, or one
\* GUID-shaped substring at an offset from the marker
RawMatches ==
    { [guid |-> g, position |-> p] :
        g \in {GuidExampleLower, GuidOther}, p \in {-20, 150} }
    \cup {[guid |-> GuidBadVersion, position |-> -20]}

SigWindows == {<<>>} \cup { <<m>> : m \in RawMatches }

Signatures == [pattern : Patterns, found : SigWindows]

\* parse_tracev3_structure lists the signatures pattern by pattern
TraceScans ==
    { s \in UNION { [1..n -> Signatures] : n \in 0..MaxSigs } :
        \A i \in 1..Len(s) : \A j \in 1..Len(s) :
            i < j => PatternRank(s[i].pattern) <= PatternRank(s[j].pattern) }

\* extract_guid_candidates, after the regular expression: upper-case the
\* match and keep it when the validator accepts it
RECURSIVE KeepValid(_)
KeepValid(found) ==
    IF found = <<>> THEN <<>>
    ELSE LET g == Upper(Head(found).guid) IN
         (IF validate_guid_structure(g)
          THEN <<[guid |-> g, position |-> Head(found).position]>>
          ELSE <<>>) \o KeepValid(Tail(found))

\* get_guid_enhanced: candidates of the signatures whose pattern is
\* b'BLDatabaseManager', in the order of the signatures
RECURSIVE AllCandidates(_)
AllCandidates(sigs) ==
    IF sigs = <<>> THEN <<>>
    ELSE (IF Head(sigs).pattern = "BLDatabaseManager"
          THEN KeepValid(Head(sigs).found) ELSE <<>>)
         \o AllCandidates(Tail(sigs))

Abs(n) == IF n < 0 THEN -n ELSE n

\* Counter(...).items(): the distinct values in first-seen order
RECURSIVE FirstSeen(_, _)
FirstSeen(cands, seen) ==
    IF cands = <<>> THEN <<>>
    ELSE IF Head(cands).guid \in seen THEN FirstSeen(Tail(cands), seen)
    ELSE <<Head(cands).guid>> \o FirstSeen(Tail(cands), seen \cup {Head(cands).guid})

\* the score with the two bonuses taken from the first occurrence alone
GuidScore_FirstPosition(g, cands) ==
    LET occ   == { i \in 1..Len(cands) : cands[i].guid = g }
        first == CHOOSE i \in occ : \A j \in occ : i <= j
    IN [guid  |-> g,
        score |-> Cardinality(occ) * 10
                  + (IF Abs(cands[first].position) < 100 THEN 5 ELSE 0)
                  + (IF cands[first].position < 0 THEN 3 ELSE 0),
        count |-> Cardinality(occ)]

\* the score with the proximity bonus given once, not per occurrence
GuidScore_BonusOnce(g, cands) ==
    LET occ    == { i \in 1..Len(cands) : cands[i].guid = g }
        close  == { i \in occ : Abs(cands[i].position) < 100 }
        before == { i \in occ : cands[i].position < 0 }
    IN [guid  |-> g,
        score |-> Cardinality(occ) * 10 + (IF close # {} THEN 5 ELSE 0)
                  + Cardinality(before) * 3,
        count |-> Cardinality(occ)]

\* the score with 5, not 3, for every occurrence before the marker
GuidScore_BeforeFive(g, cands) ==
    LET occ    == { i \in 1..Len(cands) : cands[i].guid = g }
        close  == { i \in occ : Abs(cands[i].position) < 100 }
        before == { i \in occ : cands[i].position < 0 }
    IN [guid  |-> g,
        score |-> Cardinality(occ) * 10 + Cardinality(close) * 5
                  + Cardinality(before) * 5,
        count |-> Cardinality(occ)]

\* the score analyze_guid_confidence gives one value
GuidScore(g, cands) ==
    LET occ    == { i \in 1..Len(cands) : cands[i].guid = g }
        close  == { i \in occ : Abs(cands[i].position) < 100 }
        before == { i \in occ : cands[i].position < 0 }
    IN [guid  |-> g,
        score |-> Cardinality(occ) * 10 + Cardinality(close) * 5
                  + Cardinality(before) * 3,
        count |-> Cardinality(occ)]

\* the insertion that puts a value before the values of equal score
RECURSIVE InsertDesc_TiesFirst(_, _)
InsertDesc_TiesFirst(e, sorted) ==
    IF sorted = <<>> THEN <<e>>
    ELSE IF Head(sorted).score > e.score
         THEN <<Head(sorted)>> \o InsertDesc_TiesFirst(e, Tail(sorted))
    ELSE <<e>> \o sorted

\* list.sort(key=score, reverse=True): stable, descending
RECURSIVE InsertDesc(_, _)
InsertDesc(e, sorted) ==
    IF sorted = <<>> THEN <<e>>
    ELSE IF Head(sorted).score >= e.score
         THEN <<Head(sorted)>> \o InsertDesc(e, Tail(sorted))
    ELSE <<e>> \o sorted

RECURSIVE SortDesc(_)
SortDesc(s) ==
    IF s = <<>> THEN <<>>
    ELSE InsertDesc(s[Len(s)], SortDesc(SubSeq(s, 1, Len(s) - 1)))

\* analyze_guid_confidence(guid_candidates): None, here the empty ranking,
\* for an empty list (`if not scored_guids` treats the two alike)
analyze_guid_confidence(cands) ==
    IF cands = <<>> THEN <<>>
    ELSE LET order == FirstSeen(cands, {}) IN
         SortDesc([i \in 1..Len(order) |-> GuidScore(order[i], cands)])

\* the bands with HIGH beginning above 30
ConfidenceBand_HighAbove30(score) ==
    IF score > 30 THEN "HIGH" ELSE IF score >= 15 THEN "MEDIUM" ELSE "LOW"

\* get_guid_enhanced: the confidence band of the best score
ConfidenceBand(score) ==
    IF score >= 30 THEN "HIGH" ELSE IF score >= 15 THEN "MEDIUM" ELSE "LOW"

\* confirm_guid_manual(guid): response = "y"
confirm_guid_manual(g) == TRUE

\* get_guid_enhanced, from the collected archive on: the GUID returned, its
\* band, the best candidate, and whether confirm_guid_manual stored that in
\* global_GUID
get_guid_enhanced(code, traceExists, sigs) ==
    LET none == [guid |-> NoGuid, band |-> "NONE", stored |-> FALSE, best |-> NoGuid]
        cands == AllCandidates(sigs)
    IN
    IF code # 0 THEN none
    ELSE IF ~traceExists THEN none
    ELSE IF cands = <<>> THEN none
    ELSE LET best == analyze_guid_confidence(cands)[1]
             band == ConfidenceBand(best.score)
         IN IF band \in {"LOW", "MEDIUM"}
            THEN IF confirm_guid_manual(best.guid)
                 THEN [guid |-> best.guid, band |-> band, stored |-> TRUE,
                       best |-> best.guid]
                 ELSE [guid |-> NoGuid, band |-> band, stored |-> TRUE,
                       best |-> best.guid]
            ELSE [guid |-> best.guid, band |-> band, stored |-> FALSE,
                  best |-> best.guid]

(***************************************************************************)
(* Collaborators' answers the workflow looks at.                           *)
(***************************************************************************)
\* the text `ideviceinfo` prints, by the substrings Hacktivating tests
DeviceOutputs ==
    { [noDevice |-> TRUE,  productType |-> FALSE, productTypeKV |-> FALSE, serialKV |-> FALSE],
      [noDevice |-> FALSE, productType |-> FALSE, productTypeKV |-> FALSE, serialKV |-> FALSE],
      [noDevice |-> FALSE, productType |-> TRUE,  productTypeKV |-> FALSE, serialKV |-> TRUE],
      [noDevice |-> FALSE, productType |-> TRUE,  productTypeKV |-> TRUE,  serialKV |-> FALSE],
      [noDevice |-> FALSE, productType |-> TRUE,  productTypeKV |-> TRUE,  serialKV |-> TRUE] }

\* what curl returns from the Payload Directory
Resp(t, j, s, l, a, b, c) ==
    [transport |-> t, json |-> j, success |-> s, links |-> l,
     step1 |-> a, step2 |-> b, step3 |-> c]

NoResponse == Resp("none", "none", "absent", "absent", "missing", "missing", "missing")

PdResponses ==
    { Resp("fail", "none", "absent", "absent", "missing", "missing", "missing"),
      Resp("ok", "invalid", "absent", "absent", "missing", "missing", "missing"),
      Resp("ok", "valid", "absent", "present", "url", "url", "url"),
      Resp("ok", "valid", "false", "absent", "missing", "missing", "missing"),
      Resp("ok", "valid", "false", "present", "url", "url", "url"),
      Resp("ok", "valid", "true", "absent", "missing", "missing", "missing"),
      Resp("ok", "valid", "true", "present", "missing", "url", "url"),
      Resp("ok", "valid", "true", "present", "url", "url", "missing"),
      Resp("ok", "valid", "true", "present", "empty", "url", "url"),
      Resp("ok", "valid", "true", "present", "url", "empty", "url"),
      Resp("ok", "valid", "true", "present", "url", "url", "empty"),
      Resp("ok", "valid", "true", "present", "url", "url", "url") }

NoUrls == <<"None", "None", "None">>

\* get_all_urls_from_server with the success flag not looked at
get_all_urls_from_server_IgnoreSuccess(resp) ==
    IF resp.transport # "ok" THEN [raised |-> FALSE, urls |-> NoUrls]
    ELSE IF resp.json # "valid" THEN [raised |-> FALSE, urls |-> NoUrls]
    ELSE IF resp.links = "absent" \/ "missing" \in {resp.step1, resp.step2, resp.step3}
         THEN [raised |-> TRUE, urls |-> NoUrls]
    ELSE [raised |-> FALSE, urls |-> <<resp.step1, resp.step2, resp.step3>>]

\* get_all_urls_from_server(prd, guid, sn): the three locators, or the
\* KeyError that data['links'][...] raises past `except json.JSONDecodeError`
get_all_urls_from_server(resp) ==
    IF resp.transport # "ok" THEN [raised |-> FALSE, urls |-> NoUrls]
    ELSE IF resp.json # "valid" THEN [raised |-> FALSE, urls |-> NoUrls]
    ELSE IF resp.success = "true"
         THEN IF resp.links = "absent"
                 \/ "missing" \in {resp.step1, resp.step2, resp.step3}
              THEN [raised |-> TRUE, urls |-> NoUrls]
              ELSE [raised |-> FALSE, urls |-> <<resp.step1, resp.step2, resp.step3>>]
    ELSE [raised |-> FALSE, urls |-> NoUrls]

\* all([stage1_url, stage2_url, stage3_url]): None and "" are falsy
AllUrls(urls) == \A i \in 1..3 : urls[i] \notin {"None", "empty"}

\* the file curl wrote for the final payload, as sqlite3 sees it
DbFile(isDb, hasTable, rows, hasCols) ==
    [present |-> TRUE, isDb |-> isDb, hasTable |-> hasTable, rows |-> rows,
     hasCols |-> hasCols]

NoPayload ==
    [present |-> FALSE, isDb |-> FALSE, hasTable |-> FALSE, rows |-> 0,
     hasCols |-> FALSE]

Payloads ==
    { DbFile(FALSE, FALSE, 0, FALSE),
      DbFile(TRUE, FALSE, 0, FALSE),
      DbFile(TRUE, TRUE, 0, TRUE),
      DbFile(TRUE, TRUE, 1, FALSE),
      DbFile(TRUE, TRUE, 1, TRUE),
      DbFile(TRUE, TRUE, 2, TRUE) }

\* the validation with the `count == 0` test left out
PayloadValid_NoRowCheck(db) == db.isDb /\ db.hasTable /\ db.hasCols

\* Hacktivating, the try block of the validation: no exception is raised
PayloadValid(db) ==
    /\ db.isDb          \* conn.execute raises DatabaseError on a non-database
    /\ db.hasTable      \* "Invalid DB - no asset table found"
    /\ db.rows # 0      \* "Invalid DB - no records in asset table"
    /\ db.hasCols       \* SELECT pid, url, local_path FROM asset

\* names `afc ls` may print, as pieces: a name, or a name and what follows it
DbTarget == [dir |-> "/Downloads", base |-> "downloads.28.sqlitedb"]

PlistBooks == [dir |-> "/Books", base |-> "iTunesMetadata.plist"]

PlistControl == [dir |-> "/iTunes_Control/iTunes", base |-> "iTunesMetadata.plist"]

DirEntries(remote) ==
    { <<remote.base>>, <<remote.base, "-wal">>, <<"other.file">> }

Listings(remote) == SUBSET DirEntries(remote)

\* needle in text: the needle is a run of consecutive pieces of the text
IsInfix(needle, hay) ==
    \E k \in 0..(Len(hay) - Len(needle)) :
        \A i \in 1..Len(needle) : hay[k + i] = needle[i]

\* `x in list_out`, list_out holding one entry per line
InListing(needle, listing) == \E e \in listing : IsInfix(needle, e)

\* push_file(local, remote): False when the local file is missing or the
\* push fails, else whether the listing holds the path or the base name
push_file(localExists, code, listing, remote) ==
    IF ~localExists THEN FALSE
    ELSE IF code # 0 THEN FALSE
    ELSE InListing(<<remote.dir, "/", remote.base>>, listing)
         \/ InListing(<<remote.base>>, listing)

ExitCodes == {0, 1}

\* what `afc rm` answered: the exit code (124 from _run_cmd on a timeout,
\* with "Timeout" as stderr) and which of the two texts stderr holds
RmReplies ==
    [code : ExitCodes, enoent : BOOLEAN, noSuchFile : BOOLEAN]
    \cup {[code |-> 124, enoent |-> FALSE, noSuchFile |-> FALSE]}

\* rm_file(remote): code == 0 or "ENOENT" in stderr
rm_file(reply) == reply.code = 0 \/ reply.enoent

\* the severity the loop over cleanup_files logs an answer with
cleanup_log(reply) ==
    IF reply.code = 0 THEN "info"
    ELSE IF ~reply.enoent /\ ~reply.noSuchFile THEN "warn"
    ELSE "info"

(***************************************************************************)
(* The state.                                                              *)
(***************************************************************************)
VARIABLES
    pc,             \* where the workflow thread is
    ret,            \* where reboot_device returns to
    rebootResult,   \* what reboot_device returned last
    stagesBegun,    \* the stages of this run, in the order they began
    reported,       \* the values passed to setProgress in this run
    failedAt,       \* the stage this run stopped in, "" while it has not
    failKind,       \* the kind of that failure
    errorLogged,    \* the stop was logged with severity "error"
    failSignal,     \* the progress bar was turned red in this run
    attempt,        \* get_guid_auto_new: the loop variable
    aAttempts,      \* iterations of get_guid_auto_new's loop in this run
    bAttempts,      \* calls of get_guid_enhanced in this run
    aReturned,      \* what get_guid_auto_new returned: "pending", "guid", "nil"
    attempt_count,  \* self.attempt_count
    guid,           \* self.guid
    global_GUID,    \* self.global_GUID
    acquireResult,  \* what get_guid_auto returned: "pending", "guid", "nil"
    band,           \* the confidence band of the last get_guid_enhanced
    pdResponse,     \* the Payload Directory's answer in this run
    pdCalls,        \* requests to the Payload Directory in this run
    payload,        \* the downloaded final payload
    dbHandle,       \* conn: "none", "open", "closed"
    devRemoves,     \* afc rm commands of this run
    devPushes,      \* afc push commands of this run
    deployCode,     \* exit code of the payload push, -1 before it
    deployListing,  \* what afc ls printed after the payload push
    finalReboot,    \* the last reboot_device call was made
    finalOutcome,   \* how that call ended: "none" before it has returned
    lastArchive,    \* what the collection of the current attempt left
    prompted,       \* the reboot_device call just made ended at the prompt
    bReboots,       \* reboot_device calls of get_guid_auto_with_retry, this run
    bDetects,       \* detect_device calls that returned, this run
    scratch,        \* files this run wrote to temp_dir that are still there
    watcher,        \* the SearchingDevices thread: "polling", "stopped"
    homePage,       \* self.HomePage is shown
    pc2,            \* a thread started while another was running
    arg,            \* the argument a function is applied to
    applied,        \* the function has been applied
    result          \* what it returned

\* what the workflow thread reads and writes
threadVars ==
    <<pc, ret, rebootResult, stagesBegun, reported, failedAt, failKind,
      errorLogged, failSignal, attempt, aAttempts, bAttempts, aReturned,
      attempt_count, guid, global_GUID, acquireResult, band, pdResponse,
      pdCalls, payload, dbHandle, devRemoves, devPushes, deployCode,
      deployListing, finalReboot, finalOutcome, lastArchive, prompted,
      bReboots, bDetects, scratch>>

\* what the workflow thread leaves alone
sideVars == <<watcher, homePage, pc2, arg, applied, result>>

vars == <<threadVars, sideVars>>

rebootVars == <<ret, rebootResult>>
outcomeVars == <<failedAt, failKind, errorLogged, failSignal>>
engineVars == <<attempt, aAttempts, bAttempts, aReturned, attempt_count, band>>
guidVars == <<guid, global_GUID, acquireResult>>
payloadVars == <<pdResponse, pdCalls, payload, dbHandle>>
deviceVars == <<devRemoves, devPushes, deployCode, deployListing, finalReboot>>

Stages ==
    <<"Connect", "AcquireGuid", "ResolvePayload", "Preload",
      "DownloadFinalPayload", "ValidatePayload", "DeployPayload",
      "PostDeployCleanup", "PlistRelocationRound1", "PlistRelocationRound2",
      "Settle", "FinalReboot">>

\* the thread has ended: returned, raised, or left through sys.exit
Stopped == {"idle", "done", "failed", "crashed", "exited"}

\* local_db, and the names preload_stage and the plist copy give their files
LocalDb == "downloads.28.sqlitedb"

PreloadNames == {"temp_stage1", "temp_stage2", "temp_stage3"}

PlistTmp == "temp_plist_copy.plist"

\* no archive collected
NoArchive == [isdir |-> FALSE, total_size |-> -1]

\* after __init__: no workflow thread yet, the watcher thread started, the
\* Intro frame shown
Constructed ==
    /\ pc = "idle" /\ ret = "" /\ rebootResult = TRUE
    /\ stagesBegun = <<>> /\ reported = <<>>
    /\ failedAt = "" /\ failKind = "" /\ errorLogged = FALSE /\ failSignal = FALSE
    /\ attempt = 0 /\ aAttempts = 0 /\ bAttempts = 0 /\ aReturned = "pending"
    /\ attempt_count = 0 /\ guid = NoGuid /\ global_GUID = NoGuid
    /\ acquireResult = "pending" /\ band = "NONE"
    /\ pdResponse = NoResponse /\ pdCalls = 0 /\ payload = NoPayload
    /\ dbHandle = "none"
    /\ devRemoves = 0 /\ devPushes = 0 /\ deployCode = -1 /\ deployListing = {}
    /\ finalReboot = FALSE /\ finalOutcome = "none"
    /\ lastArchive = NoArchive
    /\ prompted = FALSE /\ bReboots = 0 /\ bDetects = 0 /\ scratch = {}
    /\ watcher = "polling" /\ homePage = FALSE
    /\ pc2 = "none"

Init == Constructed /\ arg = <<>> /\ applied = FALSE /\ result = <<>>

Begin(stage) == stagesBegun' = Append(stagesBegun, stage)

\* setProgress(p)
setProgress(p) == reported' = Append(reported, p)

\* the run stops in `stage`
Stop(how, stage, kind, logged, signal) ==
    /\ pc' = how
    /\ failedAt' = stage
    /\ failKind' = kind
    /\ errorLogged' = logged
    /\ failSignal' = (failSignal \/ signal)

(***************************************************************************)
(* reboot_device(), called with the label to return to in `ret`.           *)
(***************************************************************************)
CallReboot(back) == pc' = "reboot_cmd" /\ ret' = back /\ UNCHANGED rebootResult

\* the two restart commands; both failing leads to the manual prompt
RebootCmd ==
    /\ pc = "reboot_cmd"
    /\ \E c1 \in ExitCodes, c2 \in ExitCodes :
         pc' = IF c1 # 0 /\ c2 # 0 THEN "reboot_prompt" ELSE "reboot_poll"
    /\ finalReboot' = (finalReboot \/ ret = "finish")
    /\ UNCHANGED <<rebootVars, stagesBegun, reported, outcomeVars,
                   engineVars, guidVars, payloadVars, devRemoves, devPushes,
                   deployCode, deployListing>>
    /\ UNCHANGED <<finalOutcome, lastArchive, sideVars>>
    /\ UNCHANGED <<prompted, bReboots, bDetects, scratch>>

\* the prompt followed by the polling loop
RebootPrompt_ThenPoll ==
    /\ pc = "reboot_prompt"
    /\ pc' = "reboot_poll" /\ UNCHANGED rebootVars
    /\ UNCHANGED <<stagesBegun, reported, outcomeVars, engineVars,
                   guidVars, payloadVars, deviceVars>>
    /\ UNCHANGED <<finalOutcome, lastArchive, sideVars>>
    /\ prompted' = TRUE
    /\ UNCHANGED <<bReboots, bDetects, scratch>>

\* input() returns once the operator has pressed Enter: return True
RebootPrompt ==
    /\ pc = "reboot_prompt"
    /\ pc' = ret /\ ret' = "" /\ rebootResult' = TRUE
    /\ UNCHANGED <<stagesBegun, reported, outcomeVars, engineVars,
                   guidVars, payloadVars, deviceVars>>
    /\ finalOutcome' = IF ret = "finish" THEN "manual" ELSE finalOutcome
    /\ UNCHANGED <<lastArchive, sideVars>>
    /\ prompted' = TRUE
    /\ UNCHANGED <<bReboots, bDetects, scratch>>

\* the polling loop that sends the restart command again, without end, when
\* the device has not come back within its 60 polls
RebootPoll_RetryUntilReconnected ==
    /\ pc = "reboot_poll"
    /\ \E reconnected \in BOOLEAN :
         IF reconnected
         THEN /\ rebootResult' = TRUE
              /\ finalOutcome' = IF ret # "finish" THEN finalOutcome ELSE "reconnected"
              /\ pc' = ret /\ ret' = ""
         ELSE /\ pc' = "reboot_cmd"
              /\ UNCHANGED <<ret, rebootResult, finalOutcome>>
    /\ UNCHANGED <<stagesBegun, reported, outcomeVars, engineVars,
                   guidVars, payloadVars, deviceVars>>
    /\ UNCHANGED <<lastArchive, sideVars>>
    /\ prompted' = FALSE
    /\ UNCHANGED <<bReboots, bDetects, scratch>>

\* the polling loop: True when ideviceinfo succeeds within 60 polls
RebootPoll ==
    /\ pc = "reboot_poll"
    /\ \E reconnected \in BOOLEAN :
         /\ rebootResult' = reconnected
         /\ finalOutcome' =
              IF ret # "finish" THEN finalOutcome
              ELSE IF reconnected THEN "reconnected" ELSE "timeout"
    /\ pc' = ret /\ ret' = ""
    /\ UNCHANGED <<stagesBegun, reported, outcomeVars, engineVars,
                   guidVars, payloadVars, deviceVars>>
    /\ UNCHANGED <<lastArchive, sideVars>>
    /\ prompted' = FALSE
    /\ UNCHANGED <<bReboots, bDetects, scratch>>

(***************************************************************************)
(* StartThread and Hacktivating, up to the GUID.                           *)
(***************************************************************************)
\* the activate button, on the HomePage frame: a thread running
\* Hacktivating.  The runs of this specification follow one another: the button is pressed again only once
\* the thread before it has ended; self.guid, self.global_GUID and
\* self.attempt_count keep what the earlier run left.
StartThread ==
    /\ homePage
    /\ pc \in Stopped
    /\ pc' = "connect"
    /\ stagesBegun' = <<>> /\ reported' = <<>>
    /\ failedAt' = "" /\ failKind' = "" /\ errorLogged' = FALSE
    /\ failSignal' = FALSE
    /\ aAttempts' = 0 /\ bAttempts' = 0 /\ aReturned' = "pending"
    /\ acquireResult' = "pending" /\ band' = "NONE"
    /\ pdResponse' = NoResponse /\ pdCalls' = 0 /\ payload' = NoPayload
    /\ dbHandle' = "none"
    /\ devRemoves' = 0 /\ devPushes' = 0 /\ deployCode' = -1
    /\ deployListing' = {} /\ finalReboot' = FALSE
    /\ UNCHANGED <<rebootVars, attempt, attempt_count, guid, global_GUID>>
    /\ finalOutcome' = "none" /\ lastArchive' = NoArchive
    /\ UNCHANGED sideVars
    /\ prompted' = FALSE /\ bReboots' = 0 /\ bDetects' = 0 /\ scratch' = {}

\* Hacktivating: ideviceinfo, setProgress(10), then the tests on its output
Connect ==
    /\ pc = "connect"
    /\ Begin("Connect")
    /\ setProgress(10)
    /\ \E out \in DeviceOutputs :
         IF out.noDevice
         THEN Stop("failed", "Connect", "DeviceNotFound", TRUE, TRUE)
         ELSE IF out.productType
         THEN IF out.productTypeKV /\ out.serialKV
              THEN pc' = "acquire" /\ UNCHANGED outcomeVars
              ELSE Stop("failed", "Connect", "DeviceInfoUnparsable", TRUE, FALSE)
         ELSE Stop("failed", "Connect", "DeviceNotFound", TRUE, TRUE)
    /\ UNCHANGED <<rebootVars, engineVars, guidVars, payloadVars, deviceVars>>
    /\ UNCHANGED <<finalOutcome, lastArchive, sideVars>>
    /\ UNCHANGED <<prompted, bReboots, bDetects, scratch>>

\* self.guid = self.get_guid_auto(): get_guid_auto_new(max_attempts=3) first
get_guid_auto ==
    /\ pc = "acquire"
    /\ Begin("AcquireGuid")
    /\ attempt' = 1
    /\ pc' = "A_attempt"
    /\ UNCHANGED <<rebootVars, reported, outcomeVars, aAttempts, bAttempts,
                   aReturned, attempt_count, band, guidVars, payloadVars,
                   deviceVars>>
    /\ UNCHANGED <<finalOutcome, lastArchive, sideVars>>
    /\ UNCHANGED <<prompted, bReboots, bDetects, scratch>>

(***************************************************************************)
(* Strategy A: get_guid_auto_new.                                          *)
(***************************************************************************)
\* `continue`, `return None` on the last attempt, or the end of the loop:
\* the next attempt, or None to get_guid_auto, which falls back
A_Next ==
    IF attempt >= AMaxAttempts
    THEN pc' = "B_start" /\ aReturned' = "nil" /\ attempt' = 0
    ELSE pc' = "A_attempt" /\ attempt' = attempt + 1 /\ UNCHANGED aReturned

\* one iteration begins: Step 1, reboot
A_Attempt ==
    /\ pc = "A_attempt"
    /\ aAttempts' = aAttempts + 1
    /\ CallReboot("A_after_reboot")
    /\ UNCHANGED <<stagesBegun, reported, outcomeVars, attempt, bAttempts,
                   aReturned, attempt_count, band, guidVars, payloadVars,
                   deviceVars>>
    /\ lastArchive' = NoArchive
    /\ UNCHANGED <<finalOutcome, sideVars>>
    /\ UNCHANGED <<prompted, bReboots, bDetects, scratch>>

\* the attempt going on whatever reboot_device returned
A_AfterReboot_IgnoreResult ==
    /\ pc = "A_after_reboot"
    /\ pc' = "A_wait" /\ UNCHANGED <<attempt, aReturned>>
    /\ rebootResult' = TRUE
    /\ UNCHANGED <<ret, stagesBegun, reported, outcomeVars, aAttempts,
                   bAttempts, attempt_count, band, guidVars, payloadVars,
                   deviceVars>>
    /\ UNCHANGED <<finalOutcome, lastArchive, sideVars>>
    /\ UNCHANGED <<prompted, bReboots, bDetects, scratch>>

A_AfterReboot ==
    /\ pc = "A_after_reboot"
    /\ IF rebootResult THEN pc' = "A_wait" /\ UNCHANGED <<attempt, aReturned>>
       ELSE A_Next
    /\ rebootResult' = TRUE
    /\ UNCHANGED <<ret, stagesBegun, reported, outcomeVars, aAttempts,
                   bAttempts, attempt_count, band, guidVars, payloadVars,
                   deviceVars>>
    /\ UNCHANGED <<finalOutcome, lastArchive, sideVars>>
    /\ UNCHANGED <<prompted, bReboots, bDetects, scratch>>

\* Step 2: _wait_for_device(180)
A_Wait ==
    /\ pc = "A_wait"
    /\ \E reconnected \in BOOLEAN :
         IF reconnected THEN pc' = "A_collect" /\ UNCHANGED <<attempt, aReturned>>
         ELSE A_Next
    /\ UNCHANGED <<rebootVars, stagesBegun, reported, outcomeVars, aAttempts,
                   bAttempts, attempt_count, band, guidVars, payloadVars,
                   deviceVars>>
    /\ UNCHANGED <<finalOutcome, lastArchive, sideVars>>
    /\ prompted' = FALSE
    /\ UNCHANGED <<bReboots, bDetects, scratch>>

\* Step 3, first half: collect_syslog_archive
A_Collect ==
    /\ pc = "A_collect"
    /\ \E isdir \in BOOLEAN, total_size \in ArchiveSizes :
         /\ lastArchive' = [isdir |-> isdir,
                            total_size |-> IF isdir THEN total_size ELSE 0]
         /\ IF collect_syslog_archive(isdir, total_size)
            THEN pc' = "A_query" /\ UNCHANGED <<attempt, aReturned>>
            ELSE A_Next
    /\ UNCHANGED <<rebootVars, stagesBegun, reported, outcomeVars, aAttempts,
                   bAttempts, attempt_count, band, guidVars, payloadVars,
                   deviceVars>>
    /\ UNCHANGED <<finalOutcome, sideVars>>
    /\ UNCHANGED <<prompted, bReboots, bDetects, scratch>>

\* Step 3, second half: extract_guid_from_archive and the validator
A_Query ==
    /\ pc = "A_query"
    /\ \E toolPresent \in BOOLEAN, code \in ExitCodes, lines \in LogOutputs :
         LET g == extract_guid_from_archive(toolPresent, code, lines) IN
         IF g # NoGuid /\ validate_guid_structure(g)
         THEN /\ global_GUID' = g
              /\ guid' = g
              /\ acquireResult' = "guid"
              /\ aReturned' = "guid"
              /\ attempt' = 0
              /\ pc' = "acquired"
         ELSE A_Next /\ UNCHANGED guidVars
    /\ UNCHANGED <<rebootVars, stagesBegun, reported, outcomeVars, aAttempts,
                   bAttempts, attempt_count, band, payloadVars, deviceVars>>
    /\ lastArchive' = NoArchive
    /\ UNCHANGED <<finalOutcome, sideVars>>
    /\ UNCHANGED <<prompted, bReboots, bDetects, scratch>>

(***************************************************************************)
(* Strategy B: get_guid_auto_with_retry and get_guid_enhanced.             *)
(***************************************************************************)
\* self.attempt_count = 0
get_guid_auto_with_retry ==
    /\ pc = "B_start"
    /\ attempt_count' = 0
    /\ pc' = "B_loop"
    /\ UNCHANGED <<rebootVars, stagesBegun, reported, outcomeVars, attempt,
                   aAttempts, bAttempts, aReturned, band, guidVars, payloadVars,
                   deviceVars>>
    /\ lastArchive' = NoArchive
    /\ UNCHANGED <<finalOutcome, sideVars>>
    /\ UNCHANGED <<prompted, bReboots, bDetects, scratch>>

\* while self.attempt_count < self.max_attempts: ... return None
B_Loop ==
    /\ pc = "B_loop"
    /\ IF attempt_count < max_attempts
       THEN pc' = "B_enhanced" /\ UNCHANGED guidVars
       ELSE /\ pc' = "acquired"
            /\ guid' = NoGuid
            /\ acquireResult' = "nil"
            /\ UNCHANGED global_GUID
    /\ UNCHANGED <<rebootVars, stagesBegun, reported, outcomeVars, engineVars,
                   payloadVars, deviceVars>>
    /\ UNCHANGED <<finalOutcome, lastArchive, sideVars>>
    /\ UNCHANGED <<prompted, bReboots, bDetects, scratch>>

\* guid = self.get_guid_enhanced(), and what the loop does with it
B_Enhanced ==
    /\ pc = "B_enhanced"
    /\ attempt_count' = attempt_count + 1
    /\ bAttempts' = bAttempts + 1
    /\ \E code \in ExitCodes, traceExists \in BOOLEAN, sigs \in TraceScans :
         LET r == get_guid_enhanced(code, traceExists, sigs) IN
         /\ band' = r.band
         /\ global_GUID' = IF r.stored THEN r.best ELSE global_GUID
         /\ IF r.guid # NoGuid
            THEN /\ guid' = r.guid
                 /\ acquireResult' = "guid"
                 /\ pc' = "acquired"
                 /\ UNCHANGED rebootVars
            ELSE /\ UNCHANGED <<guid, acquireResult>>
                 /\ IF attempt_count' < max_attempts
                    THEN CallReboot("B_detect")
                    ELSE pc' = "B_loop" /\ UNCHANGED rebootVars
    /\ UNCHANGED <<stagesBegun, reported, outcomeVars, attempt, aAttempts,
                   aReturned, payloadVars, deviceVars>>
    /\ UNCHANGED <<finalOutcome, lastArchive, sideVars>>
    /\ bReboots' = IF pc' = "reboot_cmd" THEN bReboots + 1 ELSE bReboots
    /\ UNCHANGED <<prompted, bDetects, scratch>>

\* the next attempt begun right after the reboot, with no detect_device
B_Detect_NoRederive ==
    /\ pc = "B_detect"
    /\ rebootResult' = TRUE
    /\ pc' = "B_loop" /\ UNCHANGED outcomeVars
    /\ UNCHANGED <<ret, stagesBegun, reported, engineVars, guidVars,
                   payloadVars, deviceVars>>
    /\ UNCHANGED <<finalOutcome, lastArchive, sideVars>>
    /\ prompted' = FALSE
    /\ UNCHANGED <<bReboots, bDetects, scratch>>

\* after the reboot, whatever it returned: detect_device, which leaves the
\* thread through sys.exit(1) when ideviceinfo fails
B_Detect ==
    /\ pc = "B_detect"
    /\ rebootResult' = TRUE
    /\ \E found \in BOOLEAN :
         IF found THEN pc' = "B_loop" /\ UNCHANGED outcomeVars
         ELSE Stop("exited", "AcquireGuid", "DeviceNotFound", TRUE, FALSE)
    /\ UNCHANGED <<ret, stagesBegun, reported, engineVars, guidVars,
                   payloadVars, deviceVars>>
    /\ UNCHANGED <<finalOutcome, lastArchive, sideVars>>
    /\ prompted' = FALSE
    /\ bDetects' = IF pc' = "B_loop" THEN bDetects + 1 ELSE bDetects
    /\ UNCHANGED <<bReboots, scratch>>

(***************************************************************************)
(* Hacktivating, from the GUID to the end.                                 *)
(***************************************************************************)
\* get_guid_auto has returned: "Final GUID: ..." is logged, setProgress(20)
ReportGuid ==
    /\ pc = "acquired"
    /\ setProgress(20)
    /\ pc' = "resolve"
    /\ UNCHANGED <<rebootVars, stagesBegun, outcomeVars, engineVars, guidVars,
                   payloadVars, deviceVars>>
    /\ UNCHANGED <<finalOutcome, lastArchive, sideVars>>
    /\ UNCHANGED <<prompted, bReboots, bDetects, scratch>>

\* get_all_urls_from_server and `if not all([...])`
ResolvePayload ==
    /\ pc = "resolve"
    /\ Begin("ResolvePayload")
    /\ pdCalls' = pdCalls + 1
    /\ \E resp \in PdResponses :
         LET r == get_all_urls_from_server(resp) IN
         /\ pdResponse' = resp
         /\ IF r.raised
            THEN /\ Stop("crashed", "ResolvePayload", "UncaughtException", FALSE, FALSE)
                 /\ UNCHANGED reported
            ELSE IF ~AllUrls(r.urls)
            THEN /\ Stop("failed", "ResolvePayload", "PayloadResolutionFailed", TRUE, TRUE)
                 /\ UNCHANGED reported
            ELSE /\ setProgress(30)
                 /\ pc' = "preload"
                 /\ UNCHANGED outcomeVars
    /\ UNCHANGED <<rebootVars, engineVars, guidVars, payload, dbHandle,
                   deviceVars>>
    /\ UNCHANGED <<finalOutcome, lastArchive, sideVars>>
    /\ UNCHANGED <<prompted, bReboots, bDetects, scratch>>

\* _curl_download(url, filename): the path, or False
curl_download(code, overHundredBytes) ==
    IF code # 0 THEN FALSE ELSE overHundredBytes

\* the three preload_stage calls: a failed one turns the bar red and the
\* loop goes on.  A preloaded file is removed at once, and a download that
\* fails is taken to leave no file: temp_dir holds what it held before
Preload ==
    /\ pc = "preload"
    /\ Begin("Preload")
    /\ \E codes \in [1..3 -> ExitCodes], sizes \in [1..3 -> BOOLEAN] :
         failSignal' =
            (failSignal \/ \E i \in 1..3 : ~curl_download(codes[i], sizes[i]))
    /\ setProgress(35)
    /\ pc' = "download"
    /\ UNCHANGED <<rebootVars, failedAt, failKind, errorLogged, engineVars,
                   guidVars, payloadVars, deviceVars>>
    /\ UNCHANGED <<finalOutcome, lastArchive, sideVars>>
    /\ UNCHANGED <<prompted, bReboots, bDetects, scratch>>

\* full_db_path = self._curl_download(stage3_url, local_db)
DownloadFinalPayload ==
    /\ pc = "download"
    /\ Begin("DownloadFinalPayload")
    /\ \E code \in ExitCodes, overHundredBytes \in BOOLEAN, db \in Payloads :
         IF curl_download(code, overHundredBytes)
         THEN /\ payload' = db
              /\ setProgress(45)
              /\ pc' = "validate"
              /\ UNCHANGED outcomeVars
         ELSE /\ Stop("failed", "DownloadFinalPayload", "DownloadFailed", TRUE, TRUE)
              /\ UNCHANGED <<payload, reported>>
    /\ UNCHANGED <<rebootVars, engineVars, guidVars, pdResponse, pdCalls,
                   dbHandle, deviceVars>>
    /\ UNCHANGED <<finalOutcome, lastArchive, sideVars>>
    /\ scratch' = IF pc' = "validate" THEN scratch \cup {LocalDb} ELSE scratch
    /\ UNCHANGED <<prompted, bReboots, bDetects>>

\* the try / except / finally around sqlite3.connect: when connect itself
\* raises, the handler runs and then conn.close() raises on the unbound name
ValidatePayload ==
    /\ pc = "validate"
    /\ Begin("ValidatePayload")
    /\ \E connects \in BOOLEAN :
         IF ~connects
         THEN /\ Stop("crashed", "ValidatePayload", "InvalidPayloadDatabase", TRUE, TRUE)
              /\ UNCHANGED <<dbHandle, reported>>
         ELSE /\ dbHandle' = "closed"
              /\ IF PayloadValid(payload)
                 THEN /\ setProgress(50)
                      /\ pc' = "deploy"
                      /\ UNCHANGED outcomeVars
                 ELSE /\ Stop("failed", "ValidatePayload", "InvalidPayloadDatabase",
                              TRUE, TRUE)
                      /\ UNCHANGED reported
    /\ UNCHANGED <<rebootVars, engineVars, guidVars, pdResponse, pdCalls,
                   payload, deviceVars>>
    /\ UNCHANGED <<finalOutcome, lastArchive, sideVars>>
    /\ UNCHANGED <<prompted, bReboots, bDetects, scratch>>

\* seven rm_file calls, then push_file(full_db_path, target), which removes
\* the target, pushes, and lists the directory when the push succeeded
DeployPayload ==
    /\ pc = "deploy"
    /\ Begin("DeployPayload")
    /\ devRemoves' = devRemoves + 8
    /\ devPushes' = devPushes + 1
    /\ \E code \in ExitCodes, listing \in Listings(DbTarget) :
         /\ deployCode' = code
         /\ deployListing' = IF code = 0 THEN listing ELSE {}
         /\ IF push_file(TRUE, code, listing, DbTarget)
            THEN /\ setProgress(60)
                 /\ pc' = "cleanup"
                 /\ UNCHANGED outcomeVars
            ELSE /\ Stop("failed", "DeployPayload",
                         IF code # 0 THEN "TransferFailed" ELSE "TransferUnconfirmed",
                         TRUE, TRUE)
                 /\ UNCHANGED reported
    /\ UNCHANGED <<rebootVars, engineVars, guidVars, payloadVars, finalReboot>>
    /\ UNCHANGED <<finalOutcome, lastArchive, sideVars>>
    /\ scratch' = IF pc' = "failed" THEN scratch \ {LocalDb} ELSE scratch
    /\ UNCHANGED <<prompted, bReboots, bDetects>>

\* the loop over cleanup_files: six afc rm commands, none of them fatal
PostDeployCleanup ==
    /\ pc = "cleanup"
    /\ Begin("PostDeployCleanup")
    /\ devRemoves' = devRemoves + 6
    /\ setProgress(65)
    /\ pc' = "round1"
    /\ UNCHANGED <<rebootVars, outcomeVars, engineVars, guidVars, payloadVars,
                   devPushes, deployCode, deployListing, finalReboot>>
    /\ UNCHANGED <<finalOutcome, lastArchive, sideVars>>
    /\ UNCHANGED <<prompted, bReboots, bDetects, scratch>>

\* STAGE 1: reboot_device, its result only logged
Round1Reboot ==
    /\ pc = "round1"
    /\ Begin("PlistRelocationRound1")
    /\ CallReboot("round1_copy")
    /\ UNCHANGED <<reported, outcomeVars, engineVars, guidVars, payloadVars,
                   deviceVars>>
    /\ UNCHANGED <<finalOutcome, lastArchive, sideVars>>
    /\ UNCHANGED <<prompted, bReboots, bDetects, scratch>>

\* pull_file, and push_file when the pull gave a file: the copy of one
\* round.  The pulled file is removed after the push whatever the push did,
\* and a pull that fails is taken to leave no file
PlistCopy(remote) ==
    \E pulled \in BOOLEAN, code \in ExitCodes, listing \in Listings(remote) :
        IF pulled
        THEN /\ devRemoves' = devRemoves + 1
             /\ devPushes' = devPushes + 1
        ELSE UNCHANGED <<devRemoves, devPushes>>

\* round 1 with a missing source ending the run
Round1Copy_AbortOnMissing ==
    /\ pc = "round1_copy"
    /\ rebootResult' = TRUE
    /\ \E pulled \in BOOLEAN :
         IF pulled
         THEN /\ devRemoves' = devRemoves + 1
              /\ devPushes' = devPushes + 1
              /\ setProgress(75)
              /\ pc' = "round2"
              /\ UNCHANGED outcomeVars
         ELSE /\ Stop("failed", "PlistRelocationRound1", "TransferFailed", TRUE, TRUE)
              /\ UNCHANGED <<devRemoves, devPushes, reported>>
    /\ UNCHANGED <<ret, stagesBegun, engineVars, guidVars, payloadVars,
                   deployCode, deployListing, finalReboot>>
    /\ UNCHANGED <<finalOutcome, lastArchive, sideVars>>
    /\ prompted' = FALSE
    /\ UNCHANGED <<bReboots, bDetects, scratch>>

\* the wait, the copy to /Books, setProgress(75)
Round1Copy ==
    /\ pc = "round1_copy"
    /\ rebootResult' = TRUE
    /\ PlistCopy(PlistBooks)
    /\ setProgress(75)
    /\ pc' = "round2"
    /\ UNCHANGED <<ret, stagesBegun, outcomeVars, engineVars, guidVars,
                   payloadVars, deployCode, deployListing, finalReboot>>
    /\ UNCHANGED <<finalOutcome, lastArchive, sideVars>>
    /\ prompted' = FALSE
    /\ UNCHANGED <<bReboots, bDetects, scratch>>

\* STAGE 2: reboot_device, its result only logged
Round2Reboot ==
    /\ pc = "round2"
    /\ Begin("PlistRelocationRound2")
    /\ CallReboot("round2_copy")
    /\ UNCHANGED <<reported, outcomeVars, engineVars, guidVars, payloadVars,
                   deviceVars>>
    /\ UNCHANGED <<finalOutcome, lastArchive, sideVars>>
    /\ UNCHANGED <<prompted, bReboots, bDetects, scratch>>

\* setProgress(85), then the copy back to /iTunes_Control
Round2Copy ==
    /\ pc = "round2_copy"
    /\ rebootResult' = TRUE
    /\ setProgress(85)
    /\ PlistCopy(PlistControl)
    /\ pc' = "settle"
    /\ UNCHANGED <<ret, stagesBegun, outcomeVars, engineVars, guidVars,
                   payloadVars, deployCode, deployListing, finalReboot>>
    /\ UNCHANGED <<finalOutcome, lastArchive, sideVars>>
    /\ prompted' = FALSE
    /\ UNCHANGED <<bReboots, bDetects, scratch>>

\* setProgress(90) and the 30 second hold
Settle ==
    /\ pc = "settle"
    /\ Begin("Settle")
    /\ setProgress(90)
    /\ pc' = "final"
    /\ UNCHANGED <<rebootVars, outcomeVars, engineVars, guidVars, payloadVars,
                   deviceVars>>
    /\ UNCHANGED <<finalOutcome, lastArchive, sideVars>>
    /\ UNCHANGED <<prompted, bReboots, bDetects, scratch>>

\* setProgress(100), then the last reboot_device
FinalReboot ==
    /\ pc = "final"
    /\ Begin("FinalReboot")
    /\ setProgress(100)
    /\ CallReboot("finish")
    /\ UNCHANGED <<outcomeVars, engineVars, guidVars, payloadVars, deviceVars>>
    /\ UNCHANGED <<finalOutcome, lastArchive, sideVars>>
    /\ UNCHANGED <<prompted, bReboots, bDetects, scratch>>

\* the Done frame shown only when the device was seen to come back
Finish_NeedsReconnect ==
    /\ pc = "finish"
    /\ rebootResult' = TRUE
    /\ IF rebootResult THEN pc' = "done" /\ UNCHANGED outcomeVars
       ELSE Stop("failed", "FinalReboot", "RebootFailed", TRUE, TRUE)
    /\ UNCHANGED <<ret, stagesBegun, reported, engineVars, guidVars,
                   payloadVars, deviceVars>>
    /\ UNCHANGED <<finalOutcome, lastArchive, sideVars>>
    /\ prompted' = FALSE
    /\ UNCHANGED <<bReboots, bDetects, scratch>>

\* reboot_device has returned: self.Done.show()
Finish ==
    /\ pc = "finish"
    /\ rebootResult' = TRUE
    /\ pc' = "done"
    /\ UNCHANGED <<ret, stagesBegun, reported, outcomeVars, engineVars,
                   guidVars, payloadVars, deviceVars>>
    /\ UNCHANGED <<finalOutcome, lastArchive, sideVars>>
    /\ prompted' = FALSE
    /\ UNCHANGED <<bReboots, bDetects, scratch>>

(***************************************************************************)
(* The watcher thread, and a second press of the activate button.          *)
(***************************************************************************)
\* what ideviceinfo prints for the watcher: the no-device message, or a text
\* in which the five fields SearchingDevices reads are all there or not
WatcherOutputs ==
    { [noDevice |-> TRUE,  fields |-> FALSE],
      [noDevice |-> FALSE, fields |-> TRUE],
      [noDevice |-> FALSE, fields |-> FALSE] }

\* one round of SearchingDevices' loop: go round again on the no-device
\* message; else show the HomePage and break, or, when a field cannot be
\* read, show the popup and break
SearchingDevices ==
    /\ watcher = "polling"
    /\ \E out \in WatcherOutputs :
         IF out.noDevice THEN UNCHANGED <<watcher, homePage>>
         ELSE IF out.fields THEN watcher' = "stopped" /\ homePage' = TRUE
         ELSE watcher' = "stopped" /\ UNCHANGED homePage
    /\ UNCHANGED <<threadVars, pc2, arg, applied, result>>

\* StartThread while the thread started before is still running: the button
\* stays enabled and StartThread tests nothing
StartThreadOverlap ==
    /\ homePage
    /\ pc \notin Stopped
    /\ pc2 \in {"none", "ended"}
    /\ pc2' = "connect"
    /\ UNCHANGED <<threadVars, watcher, homePage, arg, applied, result>>

\* that thread's Hacktivating, followed as far as its ideviceinfo command and
\* for the runs of it that stop there, the device being away
Overlap_Connect ==
    /\ pc2 = "connect"
    /\ pc2' = "ended"
    /\ UNCHANGED <<threadVars, watcher, homePage, arg, applied, result>>

(***************************************************************************)
(* The specifications.                                                     *)
(***************************************************************************)
\* a step of the workflow thread
Step ==
    \/ Connect \/ get_guid_auto
    \/ A_Attempt \/ A_AfterReboot \/ A_Wait \/ A_Collect \/ A_Query
    \/ get_guid_auto_with_retry \/ B_Loop \/ B_Enhanced \/ B_Detect
    \/ RebootCmd \/ RebootPrompt \/ RebootPoll
    \/ ReportGuid \/ ResolvePayload \/ Preload \/ DownloadFinalPayload
    \/ ValidatePayload \/ DeployPayload \/ PostDeployCleanup
    \/ Round1Reboot \/ Round1Copy \/ Round2Reboot \/ Round2Copy
    \/ Settle \/ FinalReboot \/ Finish

Next == SearchingDevices \/ StartThread \/ Step

Spec == Init /\ [][Next]_vars

\* the thread keeps running, external commands return, and the operator
\* answers the prompt
FairSpec == Spec /\ WF_vars(Step)

\* the same program with the button pressed again while a thread is running
OverlapNext == Next \/ StartThreadOverlap \/ Overlap_Connect

OverlapSpec == Init /\ [][OverlapNext]_vars

\* what the second thread leaves alone while it is in get_guid_auto_with_retry
besideAttemptCount ==
    <<pc, ret, rebootResult, stagesBegun, reported, failedAt, failKind,
      errorLogged, failSignal, attempt, aAttempts, bAttempts, aReturned,
      guid, global_GUID, acquireResult, band, pdResponse, pdCalls, payload,
      dbHandle, devRemoves, devPushes, deployCode, deployListing, finalReboot,
      finalOutcome, lastArchive, prompted, bReboots, bDetects, scratch,
      watcher, homePage, arg, applied, result>>

\* the second thread's Hacktivating with the device there, for the runs of it
\* in which get_guid_auto_new returns None after its three attempts
Overlap_get_guid_auto ==
    /\ pc2 = "connect"
    /\ pc2' = "B_start"
    /\ UNCHANGED <<threadVars, watcher, homePage, arg, applied, result>>

\* the second thread's self.attempt_count = 0
Overlap_get_guid_auto_with_retry ==
    /\ pc2 = "B_start"
    /\ attempt_count' = 0
    /\ pc2' = "B_loop"
    /\ UNCHANGED besideAttemptCount

\* the second thread's while self.attempt_count < self.max_attempts, followed
\* as far as the return of None
Overlap_B_Loop ==
    /\ pc2 = "B_loop"
    /\ pc2' = IF attempt_count < max_attempts THEN "B_enhanced" ELSE "returned"
    /\ UNCHANGED <<threadVars, watcher, homePage, arg, applied, result>>

\* the second thread's get_guid_enhanced, for the calls of it in which the
\* collect command fails, with the reboot and detect_device that follow
Overlap_B_Enhanced ==
    /\ pc2 = "B_enhanced"
    /\ attempt_count' = attempt_count + 1
    /\ pc2' = "B_loop"
    /\ UNCHANGED besideAttemptCount

\* the first thread up to the return of get_guid_auto
AcquireStep ==
    \/ Connect \/ get_guid_auto
    \/ A_Attempt \/ A_AfterReboot \/ A_Wait \/ A_Collect \/ A_Query
    \/ get_guid_auto_with_retry \/ B_Loop \/ B_Enhanced \/ B_Detect
    \/ RebootCmd \/ RebootPrompt \/ RebootPoll

\* the acquisition of the GUID with the button pressed again while a thread
\* is running, both threads using self.attempt_count
RetryOverlapNext ==
    \/ SearchingDevices \/ StartThread \/ AcquireStep
    \/ StartThreadOverlap \/ Overlap_Connect \/ Overlap_get_guid_auto
    \/ Overlap_get_guid_auto_with_retry \/ Overlap_B_Loop \/ Overlap_B_Enhanced

RetryOverlapSpec == Init /\ [][RetryOverlapNext]_vars

(***************************************************************************)
(* The validator and the scorer on their own.                              *)
(***************************************************************************)
\* characters the strings given to the validator are made of
Alphabet == {"-", "0", "4", "7", "8", "9", "A", "B", "C", "F", "G", "a", "b", "f"}

Replace(s, i, c) == [s EXCEPT ![i] = c]

Delete(s, i) == SubSeq(s, 1, i - 1) \o SubSeq(s, i + 1, Len(s))

Insert(s, i, c) == SubSeq(s, 1, i - 1) \o <<c>> \o SubSeq(s, i, Len(s))

Swap(s, i, j) == [s EXCEPT ![i] = s[j], ![j] = s[i]]

\* the empty string, well-formed GUIDs in either case, and strings one or
\* two edits away from a well-formed one: a character replaced, dropped or
\* added, a hyphen moved, the version and variant characters replaced, a
\* prefix
ValidatorInputs ==
    {GuidExample, GuidOther, GuidThird, GuidExampleLower, GuidBadVersion,
     GuidBadVariant}
    \cup { Replace(GuidExample, i, c) : i \in 1..Len(GuidExample), c \in Alphabet }
    \cup { Delete(GuidExample, i) : i \in 1..Len(GuidExample) }
    \cup { Insert(GuidExample, i, c) : i \in 1..(Len(GuidExample) + 1), c \in Alphabet }
    \cup { Swap(GuidExample, i, i + d) : i \in {9, 14, 19, 24}, d \in {-1, 1} }
    \cup { Replace(Replace(GuidOther, 15, c), 20, d) : c \in Alphabet, d \in Alphabet }
    \cup { SubSeq(GuidExample, 1, n) : n \in 0..Len(GuidExample) }

ValidateInit ==
    /\ Constructed
    /\ arg \in ValidatorInputs /\ applied = FALSE /\ result = FALSE

\* validate_guid_structure(arg)
ApplyValidate ==
    /\ ~applied
    /\ applied' = TRUE
    /\ result' = validate_guid_structure(arg)
    /\ UNCHANGED <<threadVars, watcher, homePage, pc2, arg>>

ValidateSpec == ValidateInit /\ [][ApplyValidate]_vars

\* offsets from the marker on either side of the limits the scorer tests
CandidatePositions == {-100, -99, 99, 100}

\* candidates as extract_guid_candidates appends them
Candidates ==
    [guid : {GuidExample, GuidOther, GuidThird}, position : CandidatePositions]

CandidateLists == UNION { [1..n -> Candidates] : n \in 0..MaxCands }

\* a trace in which each candidate is found at a BLDatabaseManager signature
AsSignatures(cands) ==
    [i \in 1..Len(cands) |->
        [pattern |-> "BLDatabaseManager", found |-> <<cands[i]>>]]

ScoreInit ==
    /\ Constructed
    /\ arg \in CandidateLists /\ applied = FALSE
    /\ result = [ranked |-> <<>>, attempt |-> NoGuid, band |-> "NONE",
                 confirmed |-> FALSE]

\* analyze_guid_confidence(arg), and the get_guid_enhanced call that scores
\* these candidates
ApplyScore ==
    /\ ~applied
    /\ applied' = TRUE
    /\ LET e == get_guid_enhanced(0, TRUE, AsSignatures(arg)) IN
       result' = [ranked    |-> analyze_guid_confidence(arg),
                  attempt   |-> e.guid,
                  band      |-> e.band,
                  confirmed |-> e.stored]
    /\ UNCHANGED <<threadVars, watcher, homePage, pc2, arg>>

ScoreSpec == ScoreInit /\ [][ApplyScore]_vars

(***************************************************************************)
(* The scan of a trace, and rm_file, on their own.                         *)
(***************************************************************************)
ScanInit ==
    /\ Constructed
    /\ arg \in TraceScans /\ applied = FALSE
    /\ result = [candidates |-> <<>>, attempt |-> NoGuid]

\* get_guid_enhanced on a trace with the signatures arg: all_candidates and
\* what the call returns
ApplyScan ==
    /\ ~applied
    /\ applied' = TRUE
    /\ result' = [candidates |-> AllCandidates(arg),
                  attempt    |-> get_guid_enhanced(0, TRUE, arg).guid]
    /\ UNCHANGED <<threadVars, watcher, homePage, pc2, arg>>

ScanSpec == ScanInit /\ [][ApplyScan]_vars

RmReplyLists == UNION { [1..n -> RmReplies] : n \in 0..MaxRemoves }

RemoveInit ==
    /\ Constructed
    /\ arg \in RmReplyLists /\ applied = FALSE
    /\ result = [returned |-> <<>>, logged |-> <<>>]

\* the afc rm commands answered as in arg: what rm_file returns for each,
\* and what the loop over cleanup_files logs for each
ApplyRemove ==
    /\ ~applied
    /\ applied' = TRUE
    /\ result' = [returned |-> [i \in 1..Len(arg) |-> rm_file(arg[i])],
                  logged   |-> [i \in 1..Len(arg) |-> cleanup_log(arg[i])]]
    /\ UNCHANGED <<threadVars, watcher, homePage, pc2, arg>>

RemoveSpec == RemoveInit /\ [][ApplyRemove]_vars

(***************************************************************************)
(* The candidate extractor on the bytes of a trace.                        *)
(***************************************************************************)
Max(a, b) == IF a >= b THEN a ELSE b

Min(a, b) == IF a <= b THEN a ELSE b

\* [0-9A-F] under re.IGNORECASE
HexAnyCase == hex_chars \cup {"a", "b", "c", "d", "e", "f"}

\* guid_pattern matches the 36 bytes of s that begin at offset i (from 0)
GuidShapedAt(s, i) ==
    /\ i >= 0 /\ i + 36 <= Len(s)
    /\ \A k \in 1..36 :
         IF k \in {9, 14, 19, 24} THEN s[i + k] = "-"
         ELSE s[i + k] \in HexAnyCase

\* guid_pattern.finditer(s): the offsets of the matches, found from left to
\* right, each search beginning where the match before it ended
RECURSIVE finditer(_, _)
finditer(s, from) ==
    IF from + 36 > Len(s) THEN <<>>
    ELSE IF GuidShapedAt(s, from) THEN <<from>> \o finditer(s, from + 36)
    ELSE finditer(s, from + 1)

\* the loop of extract_guid_candidates over the matches in data[start:end]:
\* the match in upper case, its offset from context_pos, kept when the
\* validator accepts it
RECURSIVE CandidatesAt(_, _, _, _)
CandidatesAt(context_data, matches, start, context_pos) ==
    IF matches = <<>> THEN <<>>
    ELSE LET m    == Head(matches)
             matched == Upper(SubSeq(context_data, m + 1, m + 36))
             relative_pos == m + start - context_pos
         IN (IF validate_guid_structure(matched)
             THEN <<[guid |-> matched, position |-> relative_pos]>>
             ELSE <<>>)
            \o CandidatesAt(context_data, Tail(matches), start, context_pos)

\* the extractor searching window_size bytes in all, half on either side
extract_guid_candidates_HalfWindow(data, context_pos, window_size) ==
    LET start == Max(0, context_pos - (window_size \div 2))
        end   == Min(Len(data), context_pos + (window_size \div 2))
        context_data == SubSeq(data, start + 1, end)
    IN CandidatesAt(context_data, finditer(context_data, 0), start, context_pos)

\* the extractor giving offsets from where an unclipped window would begin
extract_guid_candidates_FromWindowStart(data, context_pos, window_size) ==
    LET start == Max(0, context_pos - window_size)
        end   == Min(Len(data), context_pos + window_size)
        context_data == SubSeq(data, start + 1, end)
    IN CandidatesAt(context_data, finditer(context_data, 0), 0, window_size)

\* extract_guid_candidates(data, context_pos, window_size)
extract_guid_candidates(data, context_pos, window_size) ==
    LET start == Max(0, context_pos - window_size)
        end   == Min(Len(data), context_pos + window_size)
        context_data == SubSeq(data, start + 1, end)
    IN CandidatesAt(context_data, finditer(context_data, 0), start, context_pos)

\* pieces a trace is put together from: bytes that are no part of a GUID,
\* GUIDs in either case, one the validator refuses, and the first 28 bytes
\* of a GUID, which with the 8 bytes after them are GUID-shaped again
Filler == <<"x", "x", "x", "x", "x", "x", "x">>

TraceBlocks ==
    {Filler, GuidExample, GuidExampleLower, GuidBadVersion, SubSeq(GuidOther, 1, 28)}

RECURSIVE Concat(_)
Concat(blocks) ==
    IF blocks = <<>> THEN <<>> ELSE Head(blocks) \o Concat(Tail(blocks))

\* the traces of at most n pieces
TraceData(n) == { Concat(b) : b \in UNION { [1..k -> TraceBlocks] : k \in 0..n } }

\* window_size, 512 when the caller gives none
WindowSizes == {38, 50}

\* every fourth offset of the data, and its end
MarkerPositions(data) == { i \in 0..Len(data) : i % 4 = 0 \/ i = Len(data) }

ExtractInputs(n) ==
    UNION { { [data |-> d, context_pos |-> q, window_size |-> w] :
                q \in MarkerPositions(d), w \in WindowSizes } : d \in TraceData(n) }

ExtractInit ==
    /\ Constructed
    /\ arg \in ExtractInputs(MaxBlocks)
    /\ applied = FALSE /\ result = <<>>

\* extract_guid_candidates(data, context_pos, window_size)
ApplyExtract ==
    /\ ~applied
    /\ applied' = TRUE
    /\ result' = extract_guid_candidates(arg.data, arg.context_pos, arg.window_size)
    /\ UNCHANGED <<threadVars, watcher, homePage, pc2, arg>>

ExtractSpec == ExtractInit /\ [][ApplyExtract]_vars

(***************************************************************************)
(* The query of an archive, and an attempt of Strategy B on an archive.    *)
(***************************************************************************)
QueryInputs == [toolPresent : BOOLEAN, code : ExitCodes, lines : LogOutputs]

QueryInit ==
    /\ Constructed
    /\ arg \in QueryInputs /\ applied = FALSE /\ result = NoGuid

\* extract_guid_from_archive(archive_path) with /usr/bin/log there or not,
\* and `log show` ending with arg.code after printing arg.lines
ApplyQuery ==
    /\ ~applied
    /\ applied' = TRUE
    /\ result' = extract_guid_from_archive(arg.toolPresent, arg.code, arg.lines)
    /\ UNCHANGED <<threadVars, watcher, homePage, pc2, arg>>

QuerySpec == QueryInit /\ [][ApplyQuery]_vars

\* what `pymobiledevice3 syslog collect` leaves behind: no directory, or a
\* directory of some size, in which the trace file is or is not
Archives ==
    {[isdir |-> FALSE, total_size |-> -1, trace |-> FALSE]}
    \cup [isdir : {TRUE}, total_size : ArchiveSizes, trace : BOOLEAN]

EnhancedInputs == [archive : Archives, code : ExitCodes, sigs : TraceScans]

EnhancedInit ==
    /\ Constructed
    /\ arg \in EnhancedInputs /\ applied = FALSE
    /\ result = [guid |-> NoGuid, band |-> "NONE", stored |-> FALSE, best |-> NoGuid]

\* get_guid_enhanced() with the collect command ending with arg.code and
\* leaving arg.archive, whose trace holds the signatures arg.sigs
ApplyEnhanced ==
    /\ ~applied
    /\ applied' = TRUE
    /\ result' = get_guid_enhanced(arg.code, arg.archive.trace, arg.sigs)
    /\ UNCHANGED <<threadVars, watcher, homePage, pc2, arg>>

EnhancedSpec == EnhancedInit /\ [][ApplyEnhanced]_vars

(***************************************************************************)
(* Properties.                                                             *)
(***************************************************************************)
Begun(stage) == \E i \in 1..Len(stagesBegun) : stagesBegun[i] = stage

IsPrefix(s, t) == Len(s) <= Len(t) /\ \A i \in 1..Len(s) : s[i] = t[i]

Reported(p) == \E i \in 1..Len(reported) : reported[i] = p

\* the percentages of the twelve stages, in pipeline order
ProgressSteps == <<10, 20, 30, 35, 45, 50, 60, 65, 75, 85, 90, 100>>

\* 8-4-4-4-12 upper-case hex, version nibble 4, variant nibble 8, 9, A or B
PassesValidator(g) ==
    /\ Len(g) = 36
    /\ \A i \in 1..36 :
         IF i \in {9, 14, 19, 24} THEN g[i] = "-"
         ELSE g[i] \in {"0","1","2","3","4","5","6","7","8","9",
                        "A","B","C","D","E","F"}
    /\ g[15] = "4"
    /\ g[20] \in {"8", "9", "A", "B"}

C2_ReturnedGuidValid ==
    acquireResult = "guid" => PassesValidator(guid)

\* C2 witness: Strategy B returned a GUID accepted in the LOW band
C2_Witness ==
    acquireResult = "guid" /\ aReturned = "nil" /\ band = "LOW"

\* C3: when the acquisition returns no GUID the run stops in AcquireGuid: 20
\* is not reported, the Payload Directory is not called, no later stage begins.
C3_NoGuidStopsRun ==
    acquireResult = "nil"
       => (~Reported(20) /\ pdCalls = 0 /\ Len(stagesBegun) <= 2)

\* C4: the stages begin in pipeline order, and after a stage has failed
\* (AcquireGuid returning no GUID included) no later stage begins and no
\* Payload Directory or device file command is issued.
C4_StagesInOrderStopOnFailure ==
    /\ IsPrefix(stagesBegun, Stages)
    /\ (pc \in {"failed", "crashed", "exited"}
          => stagesBegun[Len(stagesBegun)] = failedAt)
    /\ (acquireResult = "nil"
          => (Len(stagesBegun) <= 2 /\ pdCalls = 0 /\ devRemoves = 0
              /\ devPushes = 0))

\* C5: DeployPayload begins only with a payload whose asset table exists and
\* has at least one row; with the table missing or empty the run stops in
\* ValidatePayload and has removed or pushed no device file.
C5_DeployOnlyAfterValidation ==
    /\ Begun("DeployPayload")
          => (payload.present /\ payload.hasTable /\ payload.rows >= 1)
    /\ (Begun("ValidatePayload") /\ (~payload.hasTable \/ payload.rows = 0))
          => (/\ pc \in {"failed", "crashed"}
              /\ failedAt = "ValidatePayload"
              /\ Len(stagesBegun) = 6
              /\ devRemoves = 0 /\ devPushes = 0)

\* C5 witness: a run stopped in ValidatePayload on an asset table with 0 rows
C5_Witness ==
    /\ pc = "failed" /\ failedAt = "ValidatePayload"
    /\ payload.isDb /\ payload.hasTable /\ payload.rows = 0

WellFormedSuccess(r) ==
    /\ r.transport = "ok" /\ r.json = "valid" /\ r.success = "true"
    /\ r.links = "present"
    /\ r.step1 = "url" /\ r.step2 = "url" /\ r.step3 = "url"

\* C6: every Payload Directory answer other than a success with three
\* non-empty locators stops the run in ResolvePayload as an unresolved
\* payload, with an error message and the failure signal, and nothing after.
C6_UnresolvedPayloadFails ==
    (pdResponse # NoResponse /\ ~WellFormedSuccess(pdResponse))
       => (/\ pc = "failed"
           /\ failedAt = "ResolvePayload"
           /\ failKind = "PayloadResolutionFailed"
           /\ errorLogged /\ failSignal
           /\ Len(stagesBegun) = 3)

SuccessFalse(r) ==
    r.transport = "ok" /\ r.json = "valid" /\ r.success = "false"

\* C7 as stated: on success:false the run stops in ResolvePayload with
\* PayloadResolutionFailed, the last reported progress is 30, and no device
\* file is removed or pushed.
C7_SuccessFalseFrozenAt30 ==
    SuccessFalse(pdResponse)
       => (/\ pc = "failed"
           /\ failedAt = "ResolvePayload"
           /\ failKind = "PayloadResolutionFailed"
           /\ reported # <<>> /\ reported[Len(reported)] = 30
           /\ devRemoves = 0 /\ devPushes = 0)

\* C7 amended: on success:false the run stops in ResolvePayload with
\* PayloadResolutionFailed, the last reported progress is 20 (30 is never
\* reported), and no device file is removed or pushed.
C7_SuccessFalseFrozenAt20 ==
    SuccessFalse(pdResponse)
       => (/\ pc = "failed"
           /\ failedAt = "ResolvePayload"
           /\ failKind = "PayloadResolutionFailed"
           /\ reported = <<10, 20>>
           /\ devRemoves = 0 /\ devPushes = 0)

\* C7 witness: a run stopped on a success:false answer
C7_Witness ==
    SuccessFalse(pdResponse) /\ pc = "failed"

\* C8: DeployPayload succeeds only if the listing after the push holds the
\* payload file itself; when it does not (a failed push included) the run
\* stops in DeployPayload, with no cleanup and no reboot stage.
C8_DeployNeedsFileListed ==
    /\ Begun("PostDeployCleanup")
          => (deployCode = 0 /\ <<DbTarget.base>> \in deployListing)
    /\ (Begun("DeployPayload") /\ <<DbTarget.base>> \notin deployListing)
          => (/\ pc = "failed"
              /\ failedAt = "DeployPayload"
              /\ Len(stagesBegun) = 7
              /\ ~finalReboot)

\* stage k of the pipeline has begun and succeeded
StageSucceeded(k) ==
    /\ Len(stagesBegun) >= k
    /\ ~(pc \in {"failed", "crashed", "exited"} /\ failedAt = Stages[k])
    /\ k = 2 => acquireResult = "guid"

\* C9: the reported values are a prefix of 10, 20, ..., 100, and the k-th
\* value is reported only when the k-th stage has succeeded.
C9_ProgressFollowsSuccess ==
    /\ IsPrefix(reported, ProgressSteps)
    /\ \A k \in 1..Len(reported) : StageSucceeded(k)

\* C10: once the payload push is confirmed in a run that acquired a GUID,
\* the run goes on to the final reboot and reports 100, whatever the preload,
\* the two plist copies and the reboots of the relocation rounds did.
C10_DeployedRunCompletes ==
    (pc = "cleanup" /\ acquireResult = "guid")
        ~> (pc = "done" /\ finalReboot /\ reported = ProgressSteps)

\* C10 witness: a completed run in which a preload had failed
C10_Witness ==
    /\ pc = "done" /\ acquireResult = "guid" /\ failSignal
    /\ finalReboot /\ Reported(100)

\* the thread has ended on a failure: a return after an error, an uncaught
\* exception, or sys.exit
Failed == pc \in {"failed", "crashed", "exited"}

\* C11: once the last reboot command has been issued the run is declared
\* complete (100 reported, the Done frame shown), whether or not the device
\* is then seen to reconnect.
C11_DoneAfterFinalRebootCommand ==
    finalReboot ~> (pc = "done" /\ reported = ProgressSteps /\ failedAt = "")

\* C11 witness: a run declared complete whose last reboot_device gave up
\* waiting for the device
C11_Witness ==
    pc = "done" /\ finalOutcome = "timeout" /\ Reported(100)

\* C12: a run that has stopped on a failure has logged an error and set the
\* failure signal, and a run that has not stopped on a failure has the
\* failure signal unset.
C12_FailureSignalExactlyOnFailure ==
    /\ Failed => (errorLogged /\ failSignal)
    /\ ~Failed => ~failSignal

\* C13: while the acquisition is under way no failure inside its loops ends
\* the workflow thread: the thread stops in AcquireGuid in no state.
C13_AcquisitionAbsorbsFailures ==
    ~(Failed /\ failedAt = "AcquireGuid")

\* C14: a Strategy A collection that leaves no archive directory, or an
\* archive under 10 MB, fails that attempt only: the attempt is counted, and
\* the engine goes to the next attempt or, after the third, to Strategy B,
\* with no result returned yet.
C14_SmallArchiveFailsAttemptOnly ==
    (lastArchive # NoArchive
       /\ (~lastArchive.isdir \/ lastArchive.total_size < 10000000))
       => (/\ pc \in {"A_attempt", "B_start"}
           /\ acquireResult = "pending"
           /\ pc = "A_attempt" => (aAttempts < 3 /\ attempt = aAttempts + 1)
           /\ pc = "B_start" => (aAttempts = 3 /\ aReturned = "nil"))

\* C14 witness: the third attempt collected a 3 MB archive and the engine
\* is about to start Strategy B
C14_Witness ==
    /\ lastArchive.isdir /\ lastArchive.total_size = 3000000
    /\ pc = "B_start" /\ aAttempts = 3

\* C15: no two workflow threads are alive at once, and the watcher does not
\* poll once a workflow thread has been started.
C15_OneRunAtATime ==
    /\ ~(pc \notin Stopped /\ pc2 = "connect")
    /\ pc # "idle" => watcher = "stopped"

\* C16: whenever the watcher has stopped, a device was detected and its
\* metadata shown on the HomePage.
C16_WatcherStopsOnlyOnDevice ==
    watcher = "stopped" => homePage

\* C17: once ValidatePayload has begun no database handle is left open, and
\* a run stopped in ValidatePayload (the file that cannot be opened
\* included) has ended through the invalid-payload failure path.
C17_HandleReleasedOnEveryExit ==
    Begun("ValidatePayload")
       => (/\ dbHandle # "open"
           /\ failedAt = "ValidatePayload"
                 => (/\ pc = "failed"
                     /\ failKind = "InvalidPayloadDatabase"
                     /\ errorLogged /\ failSignal))

\* C18: on a string whose letters are upper case the validator returns a
\* boolean, TRUE exactly when the string is five hyphen-separated groups of
\* 8, 4, 4, 4 and 12 hex digits, the third beginning with 4 and the fourth
\* with 8, 9, A or B.
C18_ValidatorDecidesShape ==
    (applied /\ Upper(arg) = arg)
       => (result \in BOOLEAN /\ (result <=> PassesValidator(arg)))

\* C18 witness: the validator applied to a GUID whose version is not 4
C18_Witness ==
    applied /\ arg = GuidBadVersion /\ result = FALSE

\* C19: the validator gives a string and its upper-case form the same
\* answer.
C19_ValidatorIgnoresCase ==
    applied => (result = validate_guid_structure(Upper(arg)))

\* C20: for a non-empty candidate list the scorer returns one entry per
\* distinct value, with its number of occurrences and the score 10 per
\* occurrence, plus 5 per occurrence nearer than 100 to the marker, plus 3
\* per occurrence before the marker; for the empty list it returns none and
\* the Strategy B attempt returns no GUID.
C20_ScoreTenFiveThree ==
    applied =>
      IF arg = <<>>
      THEN result.ranked = <<>> /\ result.attempt = NoGuid
      ELSE LET r == result.ranked
               values == { arg[j].guid : j \in 1..Len(arg) }
           IN /\ Len(r) = Cardinality(values)
              /\ { r[i].guid : i \in 1..Len(r) } = values
              /\ \A i \in 1..Len(r) :
                   LET occ == { j \in 1..Len(arg) : arg[j].guid = r[i].guid }
                       near == { j \in occ : arg[j].position > -100
                                              /\ arg[j].position < 100 }
                       early == { j \in occ : arg[j].position < 0 }
                   IN /\ r[i].count = Cardinality(occ)
                      /\ r[i].score = 10 * Cardinality(occ)
                                      + 5 * Cardinality(near)
                                      + 3 * Cardinality(early)

\* C20 witness: three candidates of two values, one value found twice near
\* and before the marker
C20_Witness ==
    /\ applied /\ Len(arg) = 3 /\ Len(result.ranked) = 2
    /\ result.ranked[1].count = 2 /\ result.ranked[1].score = 36

\* where in the list a value is seen first
FirstAt(cands, g) ==
    CHOOSE i \in 1..Len(cands) :
        cands[i].guid = g /\ \A j \in 1..(i - 1) : cands[j].guid # g

\* C21: the ranking is in descending order of score, and entries of equal
\* score are in the order in which their values were first seen in the input.
C21_RankedDescendingStable ==
    applied =>
      LET r == result.ranked IN
      \A i \in 1..Len(r) : \A j \in 1..Len(r) :
          i < j => /\ r[i].score >= r[j].score
                   /\ r[i].score = r[j].score
                        => FirstAt(arg, r[i].guid) < FirstAt(arg, r[j].guid)

\* C21 witness: three values, the first seen ranked last behind two of
\* equal score
C21_Witness ==
    /\ applied /\ Len(arg) = 3 /\ Len(result.ranked) = 3
    /\ result.ranked[1].score = result.ranked[2].score
    /\ result.ranked[3].guid = arg[1].guid
    /\ result.ranked[3].score < result.ranked[2].score

\* C22: for every permutation of the candidate list the scorer gives every
\* value the same score and count, and the same scores in the ranking.
C22_ScoreIgnoresOrder ==
    applied =>
      \A p \in Permutations(1..Len(arg)) :
          LET r  == result.ranked
              r2 == analyze_guid_confidence([i \in 1..Len(arg) |-> arg[p[i]]])
          IN /\ { r2[i] : i \in 1..Len(r2) } = { r[i] : i \in 1..Len(r) }
             /\ [i \in 1..Len(r2) |-> r2[i].score]
                  = [i \in 1..Len(r) |-> r[i].score]

\* C22 witness: a value found at two different offsets around another value
C22_Witness ==
    /\ applied /\ Len(arg) = 3
    /\ arg[1].guid = arg[3].guid /\ arg[1].position # arg[3].position
    /\ arg[2].guid # arg[1].guid
    /\ Len(result.ranked) = 2

\* C23: the top candidate is HIGH from 30, MEDIUM from 15 to 29, LOW under
\* 15; a HIGH one is returned without the confirmation step, a MEDIUM or LOW
\* one is returned after the confirmation step has run and approved it.
C23_BandsAndConfirmation ==
    (applied /\ arg # <<>>) =>
      LET top == result.ranked[1]
          b == IF top.score >= 30 THEN "HIGH"
               ELSE IF top.score >= 15 THEN "MEDIUM" ELSE "LOW"
      IN /\ result.band = b
         /\ result.attempt = top.guid
         /\ result.confirmed <=> b \in {"MEDIUM", "LOW"}

\* C23 witness: a top score of exactly 15, MEDIUM, confirmed and returned
C23_Witness ==
    /\ applied /\ arg # <<>> /\ result.ranked[1].score = 15
    /\ result.band = "MEDIUM" /\ result.confirmed
    /\ result.attempt = result.ranked[1].guid

\* C24: the preload files and the final payload file have different names,
\* and when a run has ended, complete or failed, no scratch file it wrote
\* is left.
C24_NoScratchLeft ==
    /\ LocalDb \notin PreloadNames
    /\ pc \in {"done", "failed", "crashed", "exited"} => scratch = {}

\* the remove command failed and stderr says the file is not there
FileAbsent(reply) == reply.code # 0 /\ (reply.enoent \/ reply.noSuchFile)

\* C25: a remove command that fails because the file is not there is
\* reported as true by rm_file and is not logged as an error.
C25_RemoveAbsentIsSuccess ==
    applied =>
      \A i \in 1..Len(arg) :
          FileAbsent(arg[i])
             => (result.returned[i] = TRUE /\ result.logged[i] # "error")

\* C26: in a Strategy A attempt the wait follows a reboot that returned
\* True, the collection follows a wait, the query follows a collection that
\* left an archive of 10 MB or more, and every attempt begins with the
\* reboot.
C26_StrategyASteps ==
    [][ /\ pc = "A_attempt" => (pc' = "reboot_cmd" /\ ret' = "A_after_reboot")
        /\ (pc' = "A_after_reboot" /\ pc # pc')
              => (pc \in {"reboot_prompt", "reboot_poll"} /\ aAttempts = attempt)
        /\ (pc' = "A_wait" /\ pc # pc')
              => (pc = "A_after_reboot" /\ rebootResult)
        /\ (pc' = "A_collect" /\ pc # pc') => pc = "A_wait"
        /\ (pc' = "A_query" /\ pc # pc')
              => (/\ pc = "A_collect"
                  /\ lastArchive'.isdir
                  /\ lastArchive'.total_size >= 10000000)
        /\ (pc' = "A_attempt" /\ pc # "acquire")
              => (/\ pc \in {"A_after_reboot", "A_wait", "A_collect", "A_query"}
                  /\ attempt' = attempt + 1)
      ]_vars

\* C26 witness: the second attempt at its query, after a failed first one
C26_Witness ==
    pc = "A_query" /\ attempt = 2 /\ aAttempts = 2 /\ lastArchive.isdir

C28_PromptCountsAsSuccess ==
    [][ /\ pc = "reboot_prompt" => (pc' = ret /\ rebootResult' = TRUE)
        /\ (pc = "A_after_reboot" /\ prompted)
              => (pc' = "A_wait" /\ attempt' = attempt /\ aReturned' = aReturned)
      ]_vars

\* C28 witness: a Strategy A attempt at its wait after the prompt
C28_Witness ==
    pc = "A_wait" /\ prompted /\ rebootResult

\* C29: whenever the acquisition has returned a GUID, global_GUID, the value
\* logged as the final GUID, is that GUID.
C29_FinalGuidIsReturnedGuid ==
    acquireResult = "guid" => global_GUID = guid

\* the candidates of every signature, whatever its pattern
RECURSIVE EveryMarker(_)
EveryMarker(sigs) ==
    IF sigs = <<>> THEN <<>>
    ELSE LET found == Head(sigs).found IN
         (IF found # <<>> /\ PassesValidator(Upper(found[1].guid))
          THEN <<[guid |-> Upper(found[1].guid), position |-> found[1].position]>>
          ELSE <<>>) \o EveryMarker(Tail(sigs))

\* C30: the candidates scored are those found at every occurrence of every
\* marker of the set.
C30_ScanUsesEveryMarker ==
    applied => result.candidates = EveryMarker(arg)

\* C31: an attempt of Strategy B on an archive that Strategy A's collection
\* refuses (no directory, or less than 10 MB in all) fails before anything
\* is scored: it returns no GUID and reaches no confidence band.
C31_CollectRuleAsStrategyA ==
    (applied /\ ~collect_syslog_archive(arg.archive.isdir, arg.archive.total_size))
        => (result.guid = NoGuid /\ result.band = "NONE")

\* the lines of a log output that hold the marker
MarkerLines(lines) == { i \in 1..Len(lines) : lines[i].marker }

\* the lines that hold the marker and something GUID_REGEX matches
MatchLines(lines) ==
    { i \in 1..Len(lines) : lines[i].marker /\ lines[i].matches # <<>> }

Least(S) == CHOOSE i \in S : \A j \in S : i <= j

\* C32 as stated: the query looks at the first line holding the marker only;
\* its first match is the candidate, and with no match in it the query
\* finds nothing, whatever later lines hold.
C32_OnlyFirstMarkerLine ==
    (applied /\ arg.toolPresent /\ arg.code = 0) =>
        IF MarkerLines(arg.lines) = {} THEN result = NoGuid
        ELSE LET first == arg.lines[Least(MarkerLines(arg.lines))] IN
             result = IF first.matches = <<>> THEN NoGuid
                      ELSE Upper(first.matches[1])

\* C32 amended: the candidate is the first match, in upper case, of the
\* first line that holds both the marker and a match; the query finds
\* nothing only when no line holds both.
C32_FirstMarkerLineWithMatch ==
    (applied /\ arg.toolPresent /\ arg.code = 0) =>
        IF MatchLines(arg.lines) = {} THEN result = NoGuid
        ELSE result = Upper(arg.lines[Least(MatchLines(arg.lines))].matches[1])

\* C32 witness: the first marker line holds no match, a later one does, and
\* the query returned the later one's
C32_Witness ==
    /\ applied /\ arg.toolPresent /\ arg.code = 0
    /\ Len(arg.lines) = 2
    /\ arg.lines[1].marker /\ arg.lines[1].matches = <<>>
    /\ arg.lines[2].marker /\ arg.lines[2].matches # <<>>
    /\ result = Upper(arg.lines[2].matches[1])

\* the 36 bytes of data from offset a on
BytesAt(data, a) == SubSeq(data, a + 1, a + 36)

\* C33: with the window being window_size bytes in all around context_pos,
\* cut to the data, every candidate lies inside it, and every GUID-shaped
\* substring inside it that the validator accepts is a candidate.
C33_WindowOfWindowBytes ==
    applied =>
        LET d  == arg.data
            q  == arg.context_pos
            lo == Max(0, q - (arg.window_size \div 2))
            hi == Min(Len(d), q + (arg.window_size \div 2))
        IN /\ \A k \in 1..Len(result) :
                /\ lo <= q + result[k].position
                /\ q + result[k].position + 36 <= hi
           /\ \A a \in lo..(hi - 36) :
                (GuidShapedAt(d, a) /\ PassesValidator(Upper(BytesAt(d, a))))
                    => \E k \in 1..Len(result) :
                          /\ result[k].position = a - q
                          /\ result[k].guid = Upper(BytesAt(d, a))

\* C34 as stated: the 36 bytes of data at context_pos + position are the
\* candidate's value, and the candidates come in ascending order of offset.
C34_PositionLocatesValue ==
    applied =>
        /\ \A k \in 1..Len(result) :
             /\ arg.context_pos + result[k].position >= 0
             /\ BytesAt(arg.data, arg.context_pos + result[k].position) = result[k].guid
        /\ \A k \in 1..Len(result) : \A l \in 1..Len(result) :
             k < l => result[k].position < result[l].position

\* C34 amended: the 36 bytes of data at context_pos + position, put in
\* upper case, are the candidate's value (the match may be in lower case in
\* the data), also when the window is cut at the start of the data; the
\* candidates come in ascending order of offset.
C34_PositionLocatesMatch ==
    applied =>
        /\ \A k \in 1..Len(result) :
             /\ arg.context_pos + result[k].position >= 0
             /\ arg.context_pos + result[k].position + 36 <= Len(arg.data)
             /\ Upper(BytesAt(arg.data, arg.context_pos + result[k].position))
                    = result[k].guid
        /\ \A k \in 1..Len(result) : \A l \in 1..Len(result) :
             k < l => result[k].position < result[l].position

\* C34 witness: a window cut at the start of the data with a candidate
\* before the marker and one after it, one of them in lower case in the data
C34_Witness ==
    /\ applied /\ arg.context_pos < arg.window_size
    /\ Len(result) >= 2
    /\ result[1].position < 0 /\ result[Len(result)].position > 0
    /\ \E k \in 1..Len(result) :
          BytesAt(arg.data, arg.context_pos + result[k].position) # result[k].guid

\* how often g occurs among the candidates
Occurrences(cands, g) == Cardinality({ i \in 1..Len(cands) : cands[i].guid = g })

\* C37: a GUID occurring c times scores from 10c to 18c; one occurring once
\* scores 10, 13, 15 or 18, and when it is the best the band is not HIGH and
\* the confirmation is gone through; with a GUID occurring three times or
\* more the band is HIGH; the band is LOW only when the best GUID occurs
\* once, 100 bytes or more from its marker.
C37_ScoreRangeAndBands ==
    applied =>
        /\ \A k \in 1..Len(result.ranked) :
             LET e == result.ranked[k] IN
             /\ e.count = Occurrences(arg, e.guid) /\ e.count >= 1
             /\ 10 * e.count <= e.score /\ e.score <= 18 * e.count
             /\ e.count = 1 => e.score \in {10, 13, 15, 18}
             /\ e.count >= 3 => result.band = "HIGH"
        /\ (result.ranked # <<>> /\ result.ranked[1].count = 1)
              => (result.band \in {"LOW", "MEDIUM"} /\ result.confirmed)
        /\ result.band = "LOW" =>
              /\ result.ranked[1].count = 1
              /\ \A i \in 1..Len(arg) :
                    arg[i].guid = result.ranked[1].guid => Abs(arg[i].position) >= 100

\* C37 witness: a GUID occurring three times, each far after its marker,
\* scores exactly 30 and the band is HIGH
C37_Witness ==
    /\ applied /\ Len(result.ranked) = 1
    /\ result.ranked[1].count = 3 /\ result.ranked[1].score = 30
    /\ result.band = "HIGH"

\* C36: with the thread kept running, the commands returning and the
\* prompt answered, a run that has been started stops, complete or failed:
\* the attempts of either strategy and the reboots come to an end.
C36_StartedRunStops ==
    (pc \notin Stopped) ~> (pc = "done" \/ Failed)

\* C36 witness: a run that has stopped after using all 3 attempts of
\* Strategy A and all 5 of Strategy B
C36_Witness ==
    /\ (pc = "done" \/ Failed)
    /\ aAttempts = 3 /\ bAttempts = 5 /\ bReboots = 4

\* C35: the attempt counter of Strategy B is 0 when the strategy begins its
\* loop, and at all times it lies between 0 and max_attempts, also with the
\* button pressed again while a thread is running.
C35_BudgetResetAndBounded ==
    /\ (pc = "B_loop" /\ bAttempts = 0) => attempt_count = 0
    /\ 0 <= attempt_count /\ attempt_count <= max_attempts

====
